---------------------------- MODULE Spec2Model ----------------------------
(***************************************************************************)
(* Project board: a validated input form (ProjectInput), a singleton       *)
(* store (ProjectState) that fans full snapshots out to its listeners, and *)
(* two list views (ProjectList "active" / "finished") that filter and      *)
(* re-render.  Modelled from the repository's application source.          *)
(*                                                                         *)
(* Text is a sequence of one-character strings, so that trim, length and   *)
(* the string -> number coercion are computed and not assumed.  A number   *)
(* is [nan |-> TRUE] or [nan |-> FALSE, tenths |-> n], the value n/10:     *)
(* every numeral the model feeds in has at most one fractional digit.      *)
(***************************************************************************)
EXTENDS Integers, Sequences, FiniteSets, TLC

VARIABLES
    pc,               \* position in the top-level script (lines 323-325)
    listeners,        \* State.listeners (line 33): closures, by owning list
    projects,         \* ProjectState.projects (line 41)
    assignedProjects, \* ProjectList.assignedProjects (line 209), per type
    listItems,        \* children of <ul id="<type>-projects-list"> (238-244)
    titleInput,       \* titleInputElement.value (line 255)
    descriptionInput, \* descriptionInputElement.value (line 256)
    peopleInput,      \* peopleInputElement.value (line 257)
    drag,             \* the platform's drag session of an item (185-198)
    received,         \* history: the last snapshot each listener was handed
    nCreate,          \* history: number of addProject calls so far
    lastOp,           \* history: the handler or gesture that ran last
    calls,            \* history: listener invocations made by the last step
    created,          \* history: addProject argument lists of the last step
    alerts,           \* history: alert() messages shown by the last step
    vIn,              \* the descriptor handed to validate on its own
    vOut,             \* <<>>, or <<result>> once validate has returned
    heap              \* the store's array and Project objects as references

storeVars == <<listeners, projects, nCreate>>
viewVars  == <<assignedProjects, listItems, received>>
formVars  == <<titleInput, descriptionInput, peopleInput>>
histVars  == <<lastOp, calls, created, alerts>>
harnessVars == <<vIn, vOut, heap>>
vars == <<pc, storeVars, viewVars, formVars, drag, histVars, harnessVars>>

---------------------------------------------------------------------------
(* Bounds *)

MaxProjects == 2

---------------------------------------------------------------------------
(* Text and numbers *)

Whitespace == {" "}
DigitChars == <<"0", "1", "2", "3", "4", "5", "6", "7", "8", "9">>
IsDigit(c) == \E i \in 1..Len(DigitChars) : DigitChars[i] = c
DigitVal(c) == (CHOOSE i \in 1..Len(DigitChars) : DigitChars[i] = c) - 1

RECURSIVE TrimStart(_)
TrimStart(s) ==
    IF s # <<>> /\ Head(s) \in Whitespace THEN TrimStart(Tail(s)) ELSE s

RECURSIVE TrimEnd(_)
TrimEnd(s) ==
    IF s # <<>> /\ s[Len(s)] \in Whitespace
    THEN TrimEnd(SubSeq(s, 1, Len(s) - 1))
    ELSE s

\* String.prototype.trim
Trim(s) == TrimEnd(TrimStart(s))

AllDigits(s) == \A i \in 1..Len(s) : IsDigit(s[i])

RECURSIVE DigitsVal(_)
DigitsVal(s) ==
    IF s = <<>> THEN 0
    ELSE DigitsVal(SubSeq(s, 1, Len(s) - 1)) * 10 + DigitVal(s[Len(s)])

NaN == [nan |-> TRUE]
Num(t) == [nan |-> FALSE, tenths |-> t]
\* An integer literal of the source as a number value.
Int2Num(n) == Num(n * 10)

DotAt(s) == IF \E i \in 1..Len(s) : s[i] = "."
            THEN CHOOSE i \in 1..Len(s) : s[i] = "." /\ \A j \in 1..(i-1) : s[j] # "."
            ELSE 0

\* The magnitude of an unsigned decimal literal: digits, digits.digits,
\* digits. or .digits; anything else is not a number.
UnsignedLiteral(s) ==
    LET d  == DotAt(s)
        ip == IF d = 0 THEN s ELSE SubSeq(s, 1, d - 1)
        fp == IF d = 0 THEN <<>> ELSE SubSeq(s, d + 1, Len(s))
    IN IF /\ AllDigits(ip) /\ AllDigits(fp)
          /\ Len(ip) + Len(fp) > 0
          /\ Len(fp) <= 1
       THEN Num(DigitsVal(ip) * 10 + DigitsVal(fp))
       ELSE NaN

\* Unary plus on a string (ToNumber): whitespace is trimmed, the empty
\* string is 0, an optional sign precedes a decimal literal.
ToNumber(s) ==
    LET t == Trim(s)
        signed == t # <<>> /\ Head(t) \in {"-", "+"}
        body == IF signed THEN Tail(t) ELSE t
        m == UnsignedLiteral(body)
    IN IF t = <<>> THEN Num(0)
       ELSE IF m.nan THEN NaN
       ELSE IF signed /\ Head(t) = "-" THEN Num(0 - m.tenths)
       ELSE m

RECURSIVE NatToString(_)
NatToString(n) ==
    IF n < 10 THEN <<DigitChars[n + 1]>>
    ELSE NatToString(n \div 10) \o <<DigitChars[(n % 10) + 1]>>

\* Number.prototype.toString
NumToString(x) ==
    IF x.nan THEN <<"N", "a", "N">>
    ELSE LET a == IF x.tenths < 0 THEN 0 - x.tenths ELSE x.tenths
             sign == IF x.tenths < 0 THEN <<"-">> ELSE <<>>
             frac == IF a % 10 = 0 THEN <<>> ELSE <<".", DigitChars[(a % 10) + 1]>>
         IN sign \o NatToString(a \div 10) \o frac

\* A value of type string | number, tagged as typeof reports it.
Str(s) == [type |-> "string", s |-> s]
Nbr(x) == [type |-> "number", n |-> x]

\* value.toString()
valueToString(v) == IF v.type = "string" THEN v.s ELSE NumToString(v.n)

\* >= and <= on numbers: any comparison with NaN is false.
Geq(x, y) == ~x.nan /\ ~y.nan /\ x.tenths >= y.tenths
Leq(x, y) == ~x.nan /\ ~y.nan /\ x.tenths <= y.tenths

---------------------------------------------------------------------------
(* Validation *)

\* An optional property of a descriptor is present when the record has it.
Has(d, f) == f \in DOMAIN d

\* requiredOk with the trim left out.
requiredOkUntrimmed(d) ==
    Has(d, "required") /\ d.required => Len(valueToString(d.value)) # 0

\* validate: the required clause, then one clause per optional bound.
requiredOk(d) ==
    Has(d, "required") /\ d.required => Len(Trim(valueToString(d.value))) # 0

minLengthOk(d) ==
    Has(d, "minLength") /\ d.value.type = "string" => Len(d.value.s) >= d.minLength

maxLengthOk(d) ==
    Has(d, "maxLength") /\ d.value.type = "string" => Len(d.value.s) <= d.maxLength

minOk(d) ==
    Has(d, "min") /\ d.value.type = "number" => Geq(d.value.n, Int2Num(d.min))

maxOk(d) ==
    Has(d, "max") /\ d.value.type = "number" => Leq(d.value.n, Int2Num(d.max))

validate(validatableInput) ==
    /\ requiredOk(validatableInput)
    /\ minLengthOk(validatableInput)
    /\ maxLengthOk(validatableInput)
    /\ minOk(validatableInput)
    /\ maxOk(validatableInput)


---------------------------------------------------------------------------
(* Project and the store *)

Active   == "Active"
Finished == "Finished"
ListTypes == {"active", "finished"}

\* Project storing Finished whatever status it is given.
ProjectAllFinished(id, title, description, people, status) ==
    [id |-> id, title |-> title, description |-> description,
     people |-> people, status |-> "Finished"]

\* new Project(id, title, description, people, status)
Project(id, title, description, people, status) ==
    [id |-> id, title |-> title, description |-> description,
     people |-> people, status |-> status]

\* The values Math.random().toString() can produce.  Nothing in the source
\* makes two draws differ, so a draw is any member of the set.
RandomStrings == {"0.25", "0.75"}

\* Array.prototype.slice(): a new array with the same elements.
Slice(arr) == [i \in 1..Len(arr) |-> arr[i]]

\* IsRelevant with the list's type ignored.
IsRelevantAnyList(type, project) == project.status = Active

\* The predicate of projects.filter(...) in the listener of a list.
IsRelevant(type, project) ==
    IF type = "active" THEN project.status = Active
    ELSE project.status = Finished

\* ProjectItem.persons
persons(project) ==
    IF project.people = Int2Num(1)
    THEN <<"1", " ", "P", "e", "r", "s", "o", "n">>
    ELSE NumToString(project.people) \o <<" ", "P", "e", "r", "s", "o", "n", "s">>

\* new ProjectItem(hostId, project): the <li> with its id and rendered text.
ProjectItem(project) ==
    [id |-> project.id,
     h2 |-> project.title,
     h3 |-> persons(project) \o <<" ", "a", "s", "s", "i", "g", "n", "e", "d">>,
     p  |-> project.description]

RECURSIVE AppendItems(_, _)
AppendItems(items, assigned) ==
    IF assigned = <<>> THEN items
    ELSE AppendItems(Append(items, ProjectItem(Head(assigned))), Tail(assigned))

\* renderProjects without the innerHTML = "" that clears the list.
renderProjectsNoClear(items, assigned) == AppendItems(items, assigned)

\* ProjectList.renderProjects: clear the <ul>, then one item per project.
renderProjects(items, assigned) == AppendItems(<<>>, assigned)

\* The listener a ProjectList registers, run on the view state
\* v = [assigned, items, received, calls].
ListenerFn(type, items, v) ==
    LET relevantProjects == SelectSeq(items, LAMBDA project : IsRelevant(type, project))
    IN [assigned |-> [v.assigned EXCEPT ![type] = relevantProjects],
        items    |-> [v.items EXCEPT ![type] = renderProjects(v.items[type], relevantProjects)],
        received |-> [v.received EXCEPT ![type] = items],
        calls    |-> Append(v.calls, [listener |-> type, snapshot |-> items])]

RECURSIVE NotifyListenersBackwards(_, _, _)
\* NotifyListeners walking the registry from its end.
NotifyListenersBackwards(ls, projs, v) ==
    IF ls = <<>> THEN v
    ELSE NotifyListenersBackwards(SubSeq(ls, 1, Len(ls) - 1), projs,
                                  ListenerFn(ls[Len(ls)], Slice(projs), v))

\* for(const listenerFn of this.listeners) listenerFn(this.projects.slice())
RECURSIVE NotifyListeners(_, _, _)
NotifyListeners(ls, projs, v) ==
    IF ls = <<>> THEN v
    ELSE NotifyListeners(Tail(ls), projs, ListenerFn(Head(ls), Slice(projs), v))

\* addListener overwriting the registry instead of pushing to it.
addListenerReplacing(listenerFn) == listeners' = <<listenerFn>>

\* State.addListener
addListener(listenerFn) == listeners' = Append(listeners, listenerFn)

\* addProject putting the new project first (unshift for push).
addProjectUnshift(title, description, numberOfPeople, random) ==
    LET newProject == Project(random, title, description, numberOfPeople, Active)
        pushed == <<newProject>> \o projects
        v == NotifyListeners(listeners, pushed,
                 [assigned |-> assignedProjects, items |-> listItems,
                  received |-> received, calls |-> <<>>])
    IN /\ projects' = pushed
       /\ nCreate' = nCreate + 1
       /\ assignedProjects' = v.assigned
       /\ listItems' = v.items
       /\ received' = v.received
       /\ calls' = v.calls
       /\ created' = <<[title |-> title, description |-> description,
                        people |-> numberOfPeople]>>
       /\ UNCHANGED listeners

\* ProjectState.addProject, with the id Math.random() produced.
addProject(title, description, numberOfPeople, random) ==
    LET newProject == Project(random, title, description, numberOfPeople, Active)
        pushed == Append(projects, newProject)
        v == NotifyListeners(listeners, pushed,
                 [assigned |-> assignedProjects, items |-> listItems,
                  received |-> received, calls |-> <<>>])
    IN /\ projects' = pushed
       /\ nCreate' = nCreate + 1
       /\ assignedProjects' = v.assigned
       /\ listItems' = v.items
       /\ received' = v.received
       /\ calls' = v.calls
       /\ created' = <<[title |-> title, description |-> description,
                        people |-> numberOfPeople]>>
       /\ UNCHANGED listeners

---------------------------------------------------------------------------
(* The input form *)

AlertText == "Invalid input, please try again!"

titleValidatable(enteredTitle) ==
    [value |-> Str(enteredTitle), required |-> TRUE]

descriptionValidatable(enteredDescription) ==
    [value |-> Str(enteredDescription), required |-> TRUE, minLength |-> 5]

peopleValidatable(enteredPeople) ==
    [value |-> Nbr(ToNumber(enteredPeople)), required |-> TRUE, min |-> 1, max |-> 5]

\* gatherUserInput alerting only when all three fields fail (&& for ||).
gatherUserInputAllFail ==
    IF /\ ~validate(titleValidatable(titleInput))
       /\ ~validate(descriptionValidatable(descriptionInput))
       /\ ~validate(peopleValidatable(peopleInput))
    THEN [isArray |-> FALSE, alerts |-> <<AlertText>>]
    ELSE [isArray |-> TRUE, alerts |-> <<>>,
          arr |-> <<titleInput, descriptionInput, ToNumber(peopleInput)>>]

\* ProjectInput.gatherUserInput: the tuple, or undefined after an alert.
gatherUserInput ==
    IF \/ ~validate(titleValidatable(titleInput))
       \/ ~validate(descriptionValidatable(descriptionInput))
       \/ ~validate(peopleValidatable(peopleInput))
    THEN [isArray |-> FALSE, alerts |-> <<AlertText>>]
    ELSE [isArray |-> TRUE, alerts |-> <<>>,
          arr |-> <<titleInput, descriptionInput, ToNumber(peopleInput)>>]

\* clearInputs forgetting the people field.
clearInputsButPeople ==
    /\ titleInput' = <<>>
    /\ descriptionInput' = <<>>
    /\ peopleInput' = peopleInput

\* ProjectInput.clearInputs
clearInputs ==
    /\ titleInput' = <<>>
    /\ descriptionInput' = <<>>
    /\ peopleInput' = <<>>

---------------------------------------------------------------------------
(* What the user can type *)

TitleInputs == { <<>>, <<" ">>, <<"a">> }

DescriptionInputs ==
    { <<>>,
      <<"a", "b", "c", "d">>,
      <<"a", "b", "c", "d", "e">> }

PeopleInputs ==
    { <<>>, <<"0">>, <<"1">>, <<"6">>, <<"2", ".", "5">>, <<"x">> }

---------------------------------------------------------------------------
(* State *)

\* data and effect are the DataTransfer's entries and effectAllowed; accepted
\* tells whether a dragover listener of the list under the pointer called
\* preventDefault, which is what lets the platform deliver a drop.
NoDrag == [on |-> FALSE, list |-> "none", idx |-> 0, id |-> "none",
           over |-> "none", data |-> {}, effect |-> "uninitialized",
           accepted |-> FALSE]

Op(op, list, id) == [op |-> op, list |-> list, id |-> id]

\* No store call, no alert in this step.
Quiet == calls' = <<>> /\ created' = <<>> /\ alerts' = <<>>

HarnessIdle == [value |-> Str(<<>>)]

\* No object allocated, ProjectState.projects = [], no listener run yet.
EmptyHeap == [objs |-> <<>>, arr |-> <<>>, ops |-> <<>>]

\* The state after line 73: the store exists, nothing is constructed yet.
Init ==
    /\ pc = "input"
    /\ listeners = <<>>
    /\ projects = <<>>
    /\ nCreate = 0
    /\ assignedProjects = [t \in ListTypes |-> <<>>]
    /\ listItems = [t \in ListTypes |-> <<>>]
    /\ received = [t \in ListTypes |-> <<>>]
    /\ titleInput = <<>>
    /\ descriptionInput = <<>>
    /\ peopleInput = <<>>
    /\ drag = NoDrag
    /\ lastOp = Op("init", "none", "none")
    /\ calls = <<>>
    /\ created = <<>>
    /\ alerts = <<>>
    /\ vIn = HarnessIdle
    /\ vOut = <<>>
    /\ heap = EmptyHeap

---------------------------------------------------------------------------
(* The top-level script *)

\* const projInput = new ProjectInput()
NewProjectInput ==
    /\ pc = "input"
    /\ pc' = "active"
    /\ lastOp' = Op("newProjectInput", "none", "none")
    /\ Quiet
    /\ UNCHANGED <<storeVars, viewVars, formVars, drag, harnessVars>>

\* new ProjectList(type): assignedProjects = [], configure() subscribes.
NewProjectList(type) ==
    /\ pc = type
    /\ pc' = IF type = "active" THEN "finished" ELSE "run"
    /\ assignedProjects' = [assignedProjects EXCEPT ![type] = <<>>]
    /\ addListener(type)
    /\ lastOp' = Op("newProjectList", type, "none")
    /\ Quiet
    /\ UNCHANGED <<projects, nCreate, listItems, received, formVars, drag, harnessVars>>

---------------------------------------------------------------------------
(* The form *)

TypeTitle(s) ==
    /\ pc = "run" /\ ~drag.on
    /\ titleInput' = s
    /\ lastOp' = Op("type", "none", "none")
    /\ Quiet
    /\ UNCHANGED <<pc, storeVars, viewVars, descriptionInput, peopleInput, drag, harnessVars>>

TypeDescription(s) ==
    /\ pc = "run" /\ ~drag.on
    /\ descriptionInput' = s
    /\ lastOp' = Op("type", "none", "none")
    /\ Quiet
    /\ UNCHANGED <<pc, storeVars, viewVars, titleInput, peopleInput, drag, harnessVars>>

TypePeople(s) ==
    /\ pc = "run" /\ ~drag.on
    /\ peopleInput' = s
    /\ lastOp' = Op("type", "none", "none")
    /\ Quiet
    /\ UNCHANGED <<pc, storeVars, viewVars, titleInput, descriptionInput, drag, harnessVars>>

\* ProjectInput.submitHandler, with the value Math.random() would return.
submitHandler(random) ==
    LET userInput == gatherUserInput
    IN /\ alerts' = userInput.alerts
       /\ IF userInput.isArray
          THEN /\ addProject(userInput.arr[1], userInput.arr[2], userInput.arr[3], random)
               /\ clearInputs
          ELSE /\ calls' = <<>>
               /\ created' = <<>>
               /\ UNCHANGED <<storeVars, viewVars, formVars>>

Submit ==
    /\ pc = "run" /\ ~drag.on
    /\ Len(projects) < MaxProjects \/ ~gatherUserInput.isArray
    /\ \E random \in RandomStrings : submitHandler(random)
    /\ lastOp' = Op("submit", "none", "none")
    /\ UNCHANGED <<pc, drag, harnessVars>>

---------------------------------------------------------------------------
(* Drag and drop.  ProjectItem.configure registers dragstart and dragend  *)
(* on each item; ProjectList registers no drag event at all.              *)

\* ProjectItem.dragStartHandler: console.log(event)
dragStartHandler(session) == session

\* dragEndHandler taking the dragged item out of its list.
dragEndHandlerRemovesItem ==
    /\ listItems' = [listItems EXCEPT ![drag.list] =
                         SubSeq(@, 1, drag.idx - 1) \o SubSeq(@, drag.idx + 1, Len(@))]
    /\ UNCHANGED <<storeVars, assignedProjects, received, formVars>>

\* ProjectItem.dragEndHandler: console.log("Drag End")
dragEndHandler == UNCHANGED <<storeVars, viewVars, formVars>>


DragStart(type, i) ==
    /\ pc = "run" /\ ~drag.on
    /\ i \in 1..Len(listItems[type])
    /\ drag' = dragStartHandler([on |-> TRUE, list |-> type, idx |-> i,
                                 id |-> listItems[type][i].id,
                                 over |-> "none", data |-> {},
                                 effect |-> "uninitialized",
                                 accepted |-> FALSE])
    /\ lastOp' = Op("dragstart", type, listItems[type][i].id)
    /\ Quiet
    /\ UNCHANGED <<pc, storeVars, viewVars, formVars, harnessVars>>

\* The pointer enters a list while dragging: dragover is dispatched to an
\* element with no dragover listener.
DragOver(type) ==
    /\ pc = "run" /\ drag.on /\ drag.over # type
    /\ drag' = [drag EXCEPT !.over = type]
    /\ lastOp' = Op("dragover", type, drag.id)
    /\ Quiet
    /\ UNCHANGED <<pc, storeVars, viewVars, formVars, harnessVars>>

\* The pointer leaves the list: dragleave, no listener.
DragLeave ==
    /\ pc = "run" /\ drag.on /\ drag.over # "none"
    /\ drag' = [drag EXCEPT !.over = "none"]
    /\ lastOp' = Op("dragleave", drag.over, drag.id)
    /\ Quiet
    /\ UNCHANGED <<pc, storeVars, viewVars, formVars, harnessVars>>

\* The item is released over a list.  No listener of the list handles the
\* drop; the source item then gets dragend.
Drop ==
    /\ pc = "run" /\ drag.on /\ drag.over # "none"
    /\ dragEndHandler
    /\ drag' = NoDrag
    /\ lastOp' = Op("drop", drag.over, drag.id)
    /\ Quiet
    /\ UNCHANGED <<pc, harnessVars>>

\* The drag ends anywhere else, or is aborted.
DragEnd ==
    /\ pc = "run" /\ drag.on /\ drag.over = "none"
    /\ dragEndHandler
    /\ drag' = NoDrag
    /\ lastOp' = Op("dragend", "none", drag.id)
    /\ Quiet
    /\ UNCHANGED <<pc, harnessVars>>

---------------------------------------------------------------------------
(* The program *)

Next ==
    \/ NewProjectInput
    \/ \E type \in ListTypes : NewProjectList(type)
    \/ \E s \in TitleInputs : TypeTitle(s)
    \/ \E s \in DescriptionInputs : TypeDescription(s)
    \/ \E s \in PeopleInputs : TypePeople(s)
    \/ Submit
    \/ \E type \in ListTypes : \E i \in 1..MaxProjects : DragStart(type, i)
    \/ \E type \in ListTypes : DragOver(type)
    \/ DragLeave
    \/ Drop
    \/ DragEnd

Spec == Init /\ [][Next]_vars

---------------------------------------------------------------------------
(* validate on its own: every descriptor of a bounded family is validated  *)

With(d, f, x) == [k \in DOMAIN d \cup {f} |-> IF k = f THEN x ELSE d[k]]

\* Either the descriptors as they are, or each also given property f with
\* one of the values xs.
Optional(ds, f, xs) == ds \cup { With(d, f, x) : d \in ds, x \in xs }

ValueTexts ==
    { <<>>, <<" ", " ">>, <<"a", "b">>, <<"a", "b", "c", "d", "e">>,
      <<" ", "a", "b", "c", "d">>, <<" ", " ", " ", " ", " ">> }

ValueNumbers == { Num(0), Num(10), Num(25), Num(30), Num(50), Num(51), Num(0 - 10), NaN }

Descriptors ==
    LET values == { Str(s) : s \in ValueTexts } \cup { Nbr(n) : n \in ValueNumbers }
        d0 == { [value |-> v] : v \in values }
        d1 == Optional(d0, "required", {TRUE, FALSE})
        d2 == Optional(d1, "minLength", {0, 5})
        d3 == Optional(d2, "maxLength", {2, 5})
        d4 == Optional(d3, "min", {1})
    IN Optional(d4, "max", {5})

InitValidate ==
    /\ pc = "input"
    /\ listeners = <<>>
    /\ projects = <<>>
    /\ nCreate = 0
    /\ assignedProjects = [t \in ListTypes |-> <<>>]
    /\ listItems = [t \in ListTypes |-> <<>>]
    /\ received = [t \in ListTypes |-> <<>>]
    /\ titleInput = <<>>
    /\ descriptionInput = <<>>
    /\ peopleInput = <<>>
    /\ drag = NoDrag
    /\ lastOp = Op("init", "none", "none")
    /\ calls = <<>>
    /\ created = <<>>
    /\ alerts = <<>>
    /\ vIn \in Descriptors
    /\ vOut = <<>>
    /\ heap = EmptyHeap

ApplyValidate ==
    /\ vOut = <<>>
    /\ vOut' = <<validate(vIn)>>
    /\ UNCHANGED <<pc, storeVars, viewVars, formVars, drag, histVars, vIn, heap>>

NextValidate == ApplyValidate

SpecValidate == InitValidate /\ [][NextValidate]_vars

---------------------------------------------------------------------------
(* Properties *)

Last(seq) == seq[Len(seq)]

\* The project a create call with these arguments appends.
IsNewProject(project, args) ==
    /\ project.title = args.title
    /\ project.description = args.description
    /\ project.people = args.people
    /\ project.status = Active

\* C1: n addProject calls on the empty store leave exactly n projects, and
\* each snapshot a listener is handed by a call is the snapshot it was
\* handed by the previous call with the new project appended at the end.
C1_CreateAppendsInOrder ==
    [][ nCreate' # nCreate =>
          /\ nCreate' = nCreate + 1
          /\ Len(projects') = nCreate'
          /\ Len(created') = 1
          /\ IsNewProject(Last(projects'), created'[1])
          /\ \A i \in 1..Len(calls') :
                calls'[i].snapshot =
                    Append(received[calls'[i].listener], Last(projects')) ]_vars

C1_Witness ==
    /\ nCreate = 2
    /\ Len(projects) = 2
    /\ Len(calls) = 2
    /\ projects[1] # projects[2]

\* C2: no two projects of the collection have the same id.
C2_IdsPairwiseDistinct ==
    \A i, j \in 1..Len(projects) : i # j => projects[i].id # projects[j].id

\* C3: a create call invokes every registered listener exactly once, in
\* subscription order, all before it returns, and each is handed the full
\* collection with the new project already in it; when create returns every
\* list has finished its re-render of that collection.
C3_FanOutOnceInOrder ==
    created # <<>> =>
        /\ Len(calls) = Len(listeners)
        /\ \A i \in 1..Len(calls) :
              /\ calls[i].listener = listeners[i]
              /\ calls[i].snapshot = projects
              /\ IsNewProject(Last(calls[i].snapshot), created[1])
        /\ \A i \in 1..Len(listeners) :
              /\ received[listeners[i]] = projects
              /\ Len(listItems[listeners[i]]) = Len(assignedProjects[listeners[i]])

C3_Witness ==
    /\ created # <<>>
    /\ Len(listeners) = 2
    /\ Len(calls) = 2
    /\ Len(projects) = 2

RECURSIVE PickByMask(_, _, _)
\* The entries of seq whose position the mask gives to side, in order.
PickByMask(seq, mask, side) ==
    IF seq = <<>> THEN <<>>
    ELSE LET rest == PickByMask(SubSeq(seq, 1, Len(seq) - 1), mask, side)
         IN IF mask[Len(seq)] = side THEN Append(rest, Last(seq)) ELSE rest

\* Every position of seq goes to exactly one of the two lists, each list
\* keeping the order of seq.
SplitsInto(seq, activeList, finishedList) ==
    \E mask \in [1..Len(seq) -> ListTypes] :
        /\ activeList = PickByMask(seq, mask, "active")
        /\ finishedList = PickByMask(seq, mask, "finished")

\* C4: of every snapshot the store delivers, the Active list and the
\* Finished list keep disjoint parts whose union is the whole snapshot, in
\* the snapshot's order.
C4_ListsPartitionSnapshot ==
    /\ received["active"] = received["finished"]
    /\ SplitsInto(received["active"],
                  assignedProjects["active"], assignedProjects["finished"])
    /\ \A i \in 1..Len(assignedProjects["active"]) :
          assignedProjects["active"][i].status = Active
    /\ \A i \in 1..Len(assignedProjects["finished"]) :
          assignedProjects["finished"][i].status = Finished

C4_Witness ==
    /\ calls # <<>>
    /\ Len(received["finished"]) = 2
    /\ Len(assignedProjects["active"]) + Len(assignedProjects["finished"]) = 2

\* C5: dropping an Active project on the Finished list, the one place a
\* transition(id, Finished) is requested, sets the project's status to
\* Finished in the store and notifies every listener.
C5_TransitionSetsStatus ==
    lastOp.op = "drop" /\ lastOp.list = "finished" =>
        /\ \A i \in 1..Len(projects) :
              projects[i].id = lastOp.id => projects[i].status = Finished
        /\ Len(calls) = Len(listeners)

\* C7: after an item of the Active list is dropped on the Finished list,
\* the project is rendered in the Finished list and no longer in the
\* Active list.
C7_DropMovesItem ==
    lastOp.op = "drop" /\ lastOp.list = "finished" =>
        /\ \E i \in 1..Len(listItems["finished"]) :
              listItems["finished"][i].id = lastOp.id
        /\ \A i \in 1..Len(listItems["active"]) :
              listItems["active"][i].id # lastOp.id

SomeFieldInvalid ==
    \/ ~validate(titleValidatable(titleInput))
    \/ ~validate(descriptionValidatable(descriptionInput))
    \/ ~validate(peopleValidatable(peopleInput))

SubmitStep == lastOp'.op = "submit"

\* C8: a submit with an invalid field makes no create call, leaves the
\* collection and the views alone, invokes no listener, shows the alert and
\* keeps the three fields as entered.
C8_InvalidSubmitKeepsAll ==
    [][ SubmitStep /\ SomeFieldInvalid =>
          /\ created' = <<>>
          /\ calls' = <<>>
          /\ alerts' = <<"Invalid input, please try again!">>
          /\ UNCHANGED <<storeVars, viewVars, formVars>> ]_vars

C8_Witness ==
    /\ lastOp.op = "submit"
    /\ alerts # <<>>
    /\ Len(projects) = 1
    /\ titleInput = <<"a">>
    /\ descriptionInput = <<"a", "b", "c", "d">>
    /\ peopleInput = <<"1">>

\* C9: a submit with three valid fields makes exactly one create call with
\* the entered title and description and the number the people entry
\* denotes, shows no alert, and leaves the three fields empty.
C9_ValidSubmitCreatesAndClears ==
    [][ SubmitStep /\ ~SomeFieldInvalid =>
          /\ Len(created') = 1
          /\ created'[1].title = titleInput
          /\ created'[1].description = descriptionInput
          /\ ~created'[1].people.nan
          /\ created'[1].people = ToNumber(peopleInput)
          /\ nCreate' = nCreate + 1
          /\ alerts' = <<>>
          /\ titleInput' = <<>> /\ descriptionInput' = <<>> /\ peopleInput' = <<>> ]_vars

C9_Witness ==
    /\ lastOp.op = "submit"
    /\ Len(created) = 1
    /\ created[1].people = Num(25)
    /\ titleInput = <<>> /\ descriptionInput = <<>> /\ peopleInput = <<>>

---------------------------------------------------------------------------
(* validate *)

\* The text form of the value has a character that is not whitespace.
HasVisibleText(v) ==
    IF v.type = "number" THEN TRUE
    ELSE \E i \in 1..Len(v.s) : v.s[i] \notin Whitespace

\* What the descriptor asks for, constraint by constraint.
Holds(d) ==
    /\ ("required" \in DOMAIN d /\ d.required) => HasVisibleText(d.value)
    /\ ("minLength" \in DOMAIN d /\ d.value.type = "string")
          => Len(d.value.s) >= d.minLength
    /\ ("maxLength" \in DOMAIN d /\ d.value.type = "string")
          => Len(d.value.s) <= d.maxLength
    /\ ("min" \in DOMAIN d /\ d.value.type = "number")
          => (~d.value.n.nan /\ d.value.n.tenths >= 10 * d.min)
    /\ ("max" \in DOMAIN d /\ d.value.type = "number")
          => (~d.value.n.nan /\ d.value.n.tenths <= 10 * d.max)

Examples ==
    { <<[value |-> Str(<<>>), required |-> TRUE], FALSE>>,
      <<[value |-> Str(<<" ", " ">>), required |-> TRUE], FALSE>>,
      <<[value |-> Str(<<"a", "b">>), required |-> TRUE, minLength |-> 5], FALSE>>,
      <<[value |-> Str(<<"a", "b", "c", "d", "e">>), required |-> TRUE, minLength |-> 5], TRUE>>,
      <<[value |-> Nbr(Num(0)), required |-> TRUE, min |-> 1, max |-> 5], FALSE>>,
      <<[value |-> Nbr(Num(30)), min |-> 1, max |-> 5], TRUE>> }

\* C10: validate returns true exactly when every applicable constraint of
\* the descriptor holds (required on the trimmed text form, minLength and
\* maxLength on the untrimmed length of a string, min and max inclusive on a
\* number), and answers the six examples as listed.
C10_ValidateIsConjunction ==
    vOut # <<>> =>
        /\ vOut[1] = Holds(vIn)
        /\ \A e \in Examples : vIn = e[1] => vOut[1] = e[2]

C10_Witness ==
    /\ vOut = <<TRUE>>
    /\ vIn = [value |-> Str(<<" ", "a", "b", "c", "d">>), required |-> TRUE,
              minLength |-> 5, maxLength |-> 5]

\* The six examples are among the descriptors validated.
ExamplesAreValidated ==
    \A e \in Examples : e[1] \in Descriptors

---------------------------------------------------------------------------
(* People, drag and drop, rendering, status *)

\* The number is one of the integers 1, 2, 3, 4, 5.
IsCountInRange(x) == ~x.nan /\ x.tenths \in {10, 20, 30, 40, 50}

\* C11: the form accepts a people entry only when the number it denotes is
\* an integer from 1 to 5, so no stored project has any other people value.
C11_PeopleIsIntegerInRange ==
    \A i \in 1..Len(projects) : IsCountInRange(projects[i].people)

\* C14: on drag-start the project's id is put in the drag payload as its
\* single "text/plain" entry, with effect "move".
C14_DragStartSetsPayload ==
    drag.on => /\ drag.data = { <<"text/plain", drag.id>> }
               /\ drag.effect = "move"

DragOnlyOps == {"dragstart", "dragover", "dragleave", "dragend"}

\* C15: drag-start, drag-over, drag-leave and a drag-end without a drop
\* leave the collection, every status, the listener registry and both
\* lists' rendered items unchanged and notify no listener.
C15_DragWithoutDropChangesNothing ==
    [][ lastOp'.op \in DragOnlyOps =>
          /\ UNCHANGED <<projects, listeners, assignedProjects, listItems>>
          /\ calls' = <<>>
          /\ created' = <<>> ]_vars

C15_Witness ==
    /\ lastOp.op = "dragend"
    /\ ~drag.on
    /\ Len(projects) = 2
    /\ Len(listItems["active"]) = 2

\* C16: a drag-over puts the list under the pointer in its DragOver state,
\* the state in which it accepts a drop; only from there can a drop
\* happen.
C16_DragOverAcceptsDrop ==
    drag.on /\ drag.over # "none" => drag.accepted

StatusOf(type) == IF type = "active" THEN Active ELSE Finished

\* C17: the rendered items of a list are exactly its filtered projects, one
\* item per project in order, and as many as the store has projects of the
\* list's status: nothing is left over from earlier renders.
C17_RenderedIsFiltered ==
    \A t \in ListTypes :
        /\ Len(listItems[t]) = Len(assignedProjects[t])
        /\ Len(listItems[t]) =
              Cardinality({ i \in 1..Len(projects) : projects[i].status = StatusOf(t) })
        /\ \A i \in 1..Len(listItems[t]) :
              /\ listItems[t][i].id = assignedProjects[t][i].id
              /\ listItems[t][i].h2 = assignedProjects[t][i].title
              /\ listItems[t][i].p = assignedProjects[t][i].description

C17_Witness ==
    /\ nCreate = 2
    /\ Len(listItems["active"]) = 2
    /\ listItems["active"][1].h3 = <<"1", " ", "P", "e", "r", "s", "o", "n",
                                     " ", "a", "s", "s", "i", "g", "n", "e", "d">>
    /\ listItems["finished"] = <<>>

\* C18: a project is Active when created, and no step of the program
\* changes the id, title, description, people or status of a stored project.
C18_StoredProjectsNeverChange ==
    [][ /\ Len(projects') >= Len(projects)
        /\ \A i \in 1..Len(projects) : projects'[i] = projects[i]
        /\ \A i \in (Len(projects) + 1)..Len(projects') :
              projects'[i].status = Active ]_vars

C18_Witness ==
    /\ Len(projects) = 2
    /\ projects[1].people # projects[2].people
    /\ lastOp.op = "submit"
    /\ created # <<>>

\* C19: every project of the store is Active, the Finished list holds no
\* project and the Active list holds the whole collection in creation order.
C19_EverythingStaysActive ==
    /\ \A i \in 1..Len(projects) : projects[i].status = Active
    /\ assignedProjects["finished"] = <<>>
    /\ assignedProjects["active"] = projects

C19_Witness ==
    /\ lastOp.op = "drop"
    /\ lastOp.list = "finished"
    /\ Len(projects) = 2
    /\ assignedProjects["active"] = projects

---------------------------------------------------------------------------
(* The store on its own: lists subscribe and projects are added in any     *)
(* order, as any client of ProjectState may do.                            *)

StoreTitles == { <<"a">> }
StoreDescriptions == { <<"a", "b", "c", "d", "e">> }
StorePeople == { Num(10), Num(25) }

InitStore ==
    /\ pc = "store"
    /\ listeners = <<>>
    /\ projects = <<>>
    /\ nCreate = 0
    /\ assignedProjects = [t \in ListTypes |-> <<>>]
    /\ listItems = [t \in ListTypes |-> <<>>]
    /\ received = [t \in ListTypes |-> <<>>]
    /\ titleInput = <<>>
    /\ descriptionInput = <<>>
    /\ peopleInput = <<>>
    /\ drag = NoDrag
    /\ lastOp = Op("init", "none", "none")
    /\ calls = <<>>
    /\ created = <<>>
    /\ alerts = <<>>
    /\ vIn = HarnessIdle
    /\ vOut = <<>>
    /\ heap = EmptyHeap

\* projectState.addListener(listener of the list `type`), once per list.
StoreAddListener(type) ==
    /\ pc = "store"
    /\ \A i \in 1..Len(listeners) : listeners[i] # type
    /\ addListener(type)
    /\ lastOp' = Op("addListener", type, "none")
    /\ Quiet
    /\ UNCHANGED <<pc, projects, nCreate, viewVars, formVars, drag, harnessVars>>

\* projectState.addProject(title, description, people)
StoreAddProject(title, description, people) ==
    /\ pc = "store"
    /\ Len(projects) < MaxProjects
    /\ \E random \in RandomStrings : addProject(title, description, people, random)
    /\ alerts' = <<>>
    /\ lastOp' = Op("addProject", "none", "none")
    /\ UNCHANGED <<pc, formVars, drag, harnessVars>>

NextStore ==
    \/ \E type \in ListTypes : StoreAddListener(type)
    \/ \E title \in StoreTitles, description \in StoreDescriptions,
          people \in StorePeople : StoreAddProject(title, description, people)

SpecStore == InitStore /\ [][NextStore]_vars

\* C12: subscribing appends the listener to the registry and calls nothing;
\* a listener is called only by a store mutation, and the next mutation
\* hands every registered listener, however late it subscribed, the full
\* collection with the new project.
C12_SubscribeDoesNotReplay ==
    [][ /\ listeners' # listeners =>
              /\ \E l \in ListTypes : listeners' = Append(listeners, l)
              /\ calls' = <<>>
              /\ UNCHANGED <<projects, viewVars>>
        /\ nCreate' = nCreate => calls' = <<>> /\ received' = received
        /\ nCreate' # nCreate =>
              /\ Len(projects') = Len(projects) + 1
              /\ \A i \in 1..Len(listeners) :
                    /\ received'[listeners[i]] = projects'
                    /\ Cardinality({ j \in 1..Len(calls') :
                                       calls'[j].listener = listeners[i] }) = 1 ]_vars

\* The second list subscribed after one project was created and has not
\* been called; the first, subscribed before, has the project.
C12_Witness ==
    /\ lastOp.op = "addListener"
    /\ Len(listeners) = 2
    /\ Len(projects) = 1
    /\ received[listeners[1]] = projects
    /\ received[listeners[2]] = <<>>
    /\ calls = <<>>

---------------------------------------------------------------------------
(* The store with arrays and objects as references.  heap.objs holds the   *)
(* Project objects ever constructed (an object's reference is its index),  *)
(* heap.arr is the array ProjectState.projects as a sequence of            *)
(* references, and a listener is any code: handed its array, it performs   *)
(* one of ListenerOps on it.                                               *)

Clients == {"first", "second"}

\* Changes to the array a listener was handed, and to an entry of it.
ArrayOps == {"none", "push", "pop", "reverse"}
FieldOps == {"setStatus", "setTitle"}
ListenerOps == ArrayOps \cup FieldOps

Reverse(seq) == [i \in 1..Len(seq) |-> seq[Len(seq) + 1 - i]]

\* The projects an array of references denotes.
Deref(objs, elems) == [i \in 1..Len(elems) |-> objs[elems[i]]]

\* An array is the store's own (ref "projects") or another one.
StoreArray(h) == [ref |-> "projects", elems |-> h.arr]

\* slice() returning the array it was called on.
SliceArraySame(a) == a

\* this.projects.slice(): a new array holding the same object references.
SliceArray(a) == [ref |-> "copy", elems |-> a.elems]

\* The listener's operation on the array a it was handed.  A change of the
\* array reaches the store only if a is the store's array; a change of an
\* entry is a change of the object the entry refers to.
ApplyListenerOp(op, h, a) ==
    LET elems == CASE op = "push" -> IF a.elems = <<>> THEN a.elems
                                     ELSE Append(a.elems, a.elems[1])
                   [] op = "pop" -> IF a.elems = <<>> THEN a.elems
                                    ELSE SubSeq(a.elems, 1, Len(a.elems) - 1)
                   [] op = "reverse" -> Reverse(a.elems)
                   [] OTHER -> a.elems
        objs == IF a.elems = <<>> THEN h.objs
                ELSE CASE op = "setStatus" ->
                            [h.objs EXCEPT ![a.elems[1]].status = Finished]
                       [] op = "setTitle" ->
                            [h.objs EXCEPT ![a.elems[1]].title = <<"x">>]
                       [] OTHER -> h.objs
    IN [objs |-> objs,
        arr  |-> IF a.ref = "projects" THEN elems ELSE h.arr,
        ops  |-> Append(h.ops, op)]

RECURSIVE NotifyClients(_, _, _)
\* for(const listenerFn of this.listeners) listenerFn(this.projects.slice()),
\* on r = [h, calls]; ops[i] is what the i-th listener does.
NotifyClients(ls, ops, r) ==
    IF ls = <<>> THEN r
    ELSE LET a == SliceArray(StoreArray(r.h))
         IN NotifyClients(Tail(ls), Tail(ops),
                [h |-> ApplyListenerOp(Head(ops), r.h, a),
                 calls |-> Append(r.calls,
                              [listener |-> Head(ls),
                               snapshot |-> Deref(r.h.objs, a.elems)])])

InitSnapshot ==
    /\ pc = "snapshot"
    /\ listeners = <<>>
    /\ projects = <<>>
    /\ nCreate = 0
    /\ assignedProjects = [t \in ListTypes |-> <<>>]
    /\ listItems = [t \in ListTypes |-> <<>>]
    /\ received = [t \in ListTypes |-> <<>>]
    /\ titleInput = <<>>
    /\ descriptionInput = <<>>
    /\ peopleInput = <<>>
    /\ drag = NoDrag
    /\ lastOp = Op("init", "none", "none")
    /\ calls = <<>>
    /\ created = <<>>
    /\ alerts = <<>>
    /\ vIn = HarnessIdle
    /\ vOut = <<>>
    /\ heap = EmptyHeap

\* projectState.addListener(client), once per client.
SnapshotAddListener(client) ==
    /\ pc = "snapshot"
    /\ \A i \in 1..Len(listeners) : listeners[i] # client
    /\ addListener(client)
    /\ lastOp' = Op("addListener", client, "none")
    /\ Quiet
    /\ UNCHANGED <<pc, projects, nCreate, viewVars, formVars, drag, harnessVars>>

\* ProjectState.addProject on the heap; projects is kept as the collection
\* the store's array denotes when the call returns.
SnapshotAddProject(title, description, people, random, ops) ==
    LET newProject == Project(random, title, description, people, Active)
        pushed == [objs |-> Append(heap.objs, newProject),
                   arr  |-> Append(heap.arr, Len(heap.objs) + 1),
                   ops  |-> <<>>]
        r == NotifyClients(listeners, ops, [h |-> pushed, calls |-> <<>>])
    IN /\ pc = "snapshot"
       /\ Len(heap.objs) < MaxProjects
       /\ heap' = r.h
       /\ projects' = Deref(r.h.objs, r.h.arr)
       /\ calls' = r.calls
       /\ nCreate' = nCreate + 1
       /\ created' = <<[title |-> title, description |-> description,
                        people |-> people]>>
       /\ alerts' = <<>>
       /\ lastOp' = Op("addProject", "none", random)
       /\ UNCHANGED <<pc, listeners, viewVars, formVars, drag, vIn, vOut>>

NextSnapshot ==
    \/ \E client \in Clients : SnapshotAddListener(client)
    \/ \E title \in StoreTitles, description \in StoreDescriptions,
          people \in StorePeople, random \in RandomStrings,
          ops \in [1..Len(listeners) -> ListenerOps] :
             SnapshotAddProject(title, description, people, random, ops)

SpecSnapshot == InitSnapshot /\ [][NextSnapshot]_vars

\* After the call the store holds the collection it held before with the
\* new project appended, and every listener was handed just that.
SnapshotsUntouched ==
    LET newProject == Project(lastOp'.id, created'[1].title,
                              created'[1].description, created'[1].people, Active)
        pushed == Append(projects, newProject)
    IN /\ projects' = pushed
       /\ Len(calls') = Len(listeners)
       /\ \A i \in 1..Len(calls') : calls'[i].snapshot = pushed

=============================================================================
